---- MODULE Spec2Model ----
(***************************************************************************)
(* A model of GASpy_feedback's candidate selection.                        *)
(*                                                                         *)
(*   src/create_parameters.py   _make_parameters_list, _trim               *)
(*   src/gaspy_feedback/core.py BestLowCoverageSitesWithGaussianNoise      *)
(*                                                                         *)
(* create_parameters.py is Python 2 code (it divides the list returned by  *)
(* map(), and hands max_predictions/2 to numpy as an integer size), so `/` *)
(* on two integers is floor division there.  Python lists are 0-based, the *)
(* sequences here are 1-based: position i here is index i-1 there.         *)
(*                                                                         *)
(* Numbers: values, energies and targets are integers.  The only fraction  *)
(* the code produces from them is the default target (max-min)/2., so      *)
(* targets are carried doubled (t2 = 2*target) and distances as            *)
(* |2*value - t2|, which orders candidates exactly as |value - target|.    *)
(***************************************************************************)
EXTENDS Integers, Sequences, FiniteSets, TLC

VARIABLES
    pc,               \* position of the run: which entry point, and how it ended
    docs,             \* the caller's list object handed to _make_parameters_list
    prioritization,   \* argument of _make_parameters_list
    max_predictions,  \* argument of _make_parameters_list
    target,           \* argument: [given |-> BOOLEAN, val |-> Int]; ~given is None
    values,           \* argument: [given |-> BOOLEAN, list |-> Seq(Int)]; ~given is None
    docs_by_surface,  \* core.py: what get_low_coverage_docs_by_surface returned
    energy_target,    \* core.py: luigi IntParameter
    stdev,            \* core.py: luigi FloatParameter, in tenths (1 is 0.1)
    max_rockets,      \* core.py: luigi IntParameter
    branch,           \* which branch of the if/elif chain ran
    selected,         \* the local `docs` after prioritization (what the loop reads)
    target_used,      \* the local `target` the policy measured from, doubled; -1: none
    parameters_list,  \* the list _make_parameters_list returned
    yielded,          \* the tasks the generator `requires` has yielded so far
    err               \* the exception that left the call, or "none"

vars == <<pc, docs, prioritization, max_predictions, target, values,
          docs_by_surface, energy_target, stdev, max_rockets,
          branch, selected, target_used, parameters_list, yielded, err>>

-----------------------------------------------------------------------------
(* Bounds of the model. *)
MaxDocs == 3
MaxVal == 2
MaxPred == 4
MaxSurfaces == 2
MaxRockets == 2

(* n_sigmas=6. is the default of _make_parameters_list and from_predictions. *)
N_SIGMAS == 6

(* A target far enough from every value that densities underflow. *)
FarTarget == MaxVal + 6
FarEnergyTarget == MaxVal + 3

Policies == {"targeted", "random", "gaussian", "anything"}

None == [given |-> FALSE, val |-> 0]
NoValues == [given |-> FALSE, list |-> <<>>]

SeqsUpTo(S, n) == UNION {[1..k -> S] : k \in 0..n}

(* A mongo doc: `complete` says whether it carries 'mpid', 'miller' and    *)
(* 'shift', the keys the parameters loop reads without a try/except.       *)
Doc(i, c, d, e) == [id |-> i, complete |-> c, DFT_calculated |-> d, energy |-> e]

(* Catalog docs (unsimulated, no energy), at most one of them incomplete. *)
CatalogDocs(n) ==
    {[i \in 1..n |-> Doc(i, i # bad, FALSE, 0)] : bad \in 0..n}

(* Low-coverage docs, one per surface, at most one of them incomplete. *)
SurfaceDocs(n) ==
    {[i \in 1..n |-> Doc(i, i # bad, dft[i], en[i])] :
        bad \in 0..n, dft \in [1..n -> BOOLEAN], en \in [1..n -> 0..MaxVal]}

-----------------------------------------------------------------------------
(* Helpers *)
Abs(x) == IF x < 0 THEN -x ELSE x
Min2(a, b) == IF a < b THEN a ELSE b
SeqMax(s) == CHOOSE m \in {s[i] : i \in DOMAIN s} : \A i \in DOMAIN s : s[i] <= m
SeqMin(s) == CHOOSE m \in {s[i] : i \in DOMAIN s} : \A i \in DOMAIN s : m <= s[i]
Ids(s) == [i \in DOMAIN s |-> s[i].id]

(* Python truthiness: `not values` is true of None and of the empty list,  *)
(* `not target` is true of None and of 0.                                  *)
NotValues(v) == ~v.given \/ Len(v.list) = 0
NotTarget(t) == ~t.given \/ t.val = 0

(* target = (max(values)-min(values))/2. when `not target`; doubled. *)
Target2(t, vals) ==
    IF NotTarget(t) THEN SeqMax(vals) - SeqMin(vals) ELSE 2 * t.val

(* _trim: max_predictions == 0 passes without binding __list, so the       *)
(* return statement raises UnboundLocalError.                              *)
Trim_NoHalving(_list, maxp) ==
    IF maxp = 0
    THEN [err |-> "UnboundLocalError", list |-> <<>>]
    ELSE [err |-> "none", list |-> SubSeq(_list, 1, Min2(Len(_list), maxp))]
Trim(_list, maxp) ==
    IF maxp = 0
    THEN [err |-> "UnboundLocalError", list |-> <<>>]
    ELSE [err |-> "none", list |-> SubSeq(_list, 1, Min2(Len(_list), maxp \div 2))]

(* sorted(range(len(values)), key=...): Python's sort is stable.  Insertion *)
(* of the indices in ascending order, each after every index whose key is  *)
(* not larger, gives the same order.                                       *)
RECURSIVE InsertByKey(_, _, _)
InsertByKey(s, i, key) ==
    IF s = <<>> THEN <<i>>
    ELSE IF key[Head(s)] <= key[i]
         THEN <<Head(s)>> \o InsertByKey(Tail(s), i, key)
         ELSE <<i>> \o s
RECURSIVE SortedUpTo(_, _)
SortedUpTo(key, n) ==
    IF n = 0 THEN <<>> ELSE InsertByKey(SortedUpTo(key, n - 1), n, key)
SortInds(vals, t2) ==
    LET key == [i \in DOMAIN vals |-> Abs(2 * vals[i] - t2)]
    IN  SortedUpTo(key, Len(vals))

(* scipy's norm(loc, scale).pdf(x), by the class of the double it returns, *)
(* for z = |x - loc|/scale = num/den: nan when scale is 0, 0.0 when        *)
(* exp(-z*z/2) underflows (z >= 39; no z the bounds produce lies between   *)
(* 38.5 and 39), a positive double otherwise.                              *)
NormPdf_ZeroScaleIsFlat(num, den) ==
    IF den = 0 THEN "pos"
    ELSE IF num >= 39 * den THEN "zero"
    ELSE "pos"
NormPdf(num, den) ==
    IF den = 0 THEN "nan"
    ELSE IF num >= 39 * den THEN "zero"
    ELSE "pos"

(* pdf_eval/sum(pdf_eval): one nan makes the sum and every quotient nan;   *)
(* when every density is 0.0 the sum is 0.0 and every quotient 0/0 = nan.  *)
Normalize(pdf_eval) ==
    IF \/ \E i \in DOMAIN pdf_eval : pdf_eval[i] = "nan"
       \/ \A i \in DOMAIN pdf_eval : pdf_eval[i] = "zero"
    THEN [i \in DOMAIN pdf_eval |-> "nan"]
    ELSE pdf_eval

(* The sequences of `size` pairwise distinct members of S. *)
Arrangements(S, size) ==
    {s \in [1..size -> S] : \A i, j \in 1..size : i # j => s[i] # s[j]}
ArrangementsWithRepeats(S, size) == [1..size -> S]

(* np.random.choice(a, size=size, replace=False, p=p): the set of its      *)
(* outcomes.  It raises ValueError for an empty population, for a p of     *)
(* another length, for a sample larger than the population and for fewer   *)
(* positive entries in p than size.  A nan in p is a ValueError too when   *)
(* size >= 1; with size = 0 newer numpy raises ("probabilities contain     *)
(* NaN") and older numpy returns the empty sample.                         *)
ChoiceError == [err |-> "ValueError", sample |-> <<>>]
NpRandomChoice_Replace(a, size, p) ==
    IF Len(a) = 0 \/ Len(p) # Len(a) THEN {ChoiceError}
    ELSE IF \E i \in DOMAIN p : p[i] = "nan"
    THEN IF size = 0 THEN {ChoiceError, [err |-> "none", sample |-> <<>>]}
         ELSE {ChoiceError}
    ELSE IF size > Len(a) THEN {ChoiceError}
    ELSE IF Cardinality({i \in DOMAIN p : p[i] = "pos"}) < 1 THEN {ChoiceError}
    ELSE {[err |-> "none", sample |-> [k \in 1..size |-> a[s[k]]]] :
            s \in ArrangementsWithRepeats({i \in DOMAIN p : p[i] = "pos"}, size)}
NpRandomChoice_Truncates(a, size, p) ==
    IF Len(a) = 0 \/ Len(p) # Len(a) THEN {ChoiceError}
    ELSE IF \E i \in DOMAIN p : p[i] = "nan"
    THEN IF size = 0 THEN {ChoiceError, [err |-> "none", sample |-> <<>>]}
         ELSE {ChoiceError}
    ELSE LET pos == {i \in DOMAIN p : p[i] = "pos"}
             n == Min2(size, Cardinality(pos))
         IN  {[err |-> "none", sample |-> [k \in 1..n |-> a[s[k]]]] :
                s \in Arrangements(pos, n)}
NpRandomChoice(a, size, p) ==
    IF Len(a) = 0 \/ Len(p) # Len(a) THEN {ChoiceError}
    ELSE IF \E i \in DOMAIN p : p[i] = "nan"
    THEN IF size = 0 THEN {ChoiceError, [err |-> "none", sample |-> <<>>]}
         ELSE {ChoiceError}
    ELSE IF size > Len(a) THEN {ChoiceError}
    ELSE IF Cardinality({i \in DOMAIN p : p[i] = "pos"}) < size THEN {ChoiceError}
    ELSE {[err |-> "none", sample |-> [k \in 1..size |-> a[s[k]]]] :
            s \in Arrangements({i \in DOMAIN p : p[i] = "pos"}, size)}

-----------------------------------------------------------------------------
(* _make_parameters_list (src/create_parameters.py)                         *)

(* The loop that turns the chosen docs into parameters: for each doc, one  *)
(* dictionary for the top and then one for the bottom.  doc['miller'],     *)
(* doc['shift'] and doc['mpid'] are read without a try/except, so a doc    *)
(* lacking them raises KeyError and the local list is never returned.      *)
ParametersLoop_TopOnly(sel) ==
    IF \E i \in DOMAIN sel : ~sel[i].complete
    THEN [err |-> "KeyError", list |-> <<>>]
    ELSE [err |-> "none",
          list |-> [k \in 1..Len(sel) |-> [doc |-> sel[k].id, top |-> TRUE]]]
ParametersLoop(sel) ==
    IF \E i \in DOMAIN sel : ~sel[i].complete
    THEN [err |-> "KeyError", list |-> <<>>]
    ELSE [err |-> "none",
          list |-> [k \in 1..(2 * Len(sel)) |->
                      [doc |-> sel[(k + 1) \div 2].id, top |-> (k % 2 = 1)]]]

(* An outcome of one call: the branch taken, the caller's list afterwards, *)
(* the docs the loop ran over, the exception and the returned list.        *)
Raise(b, callerDocs, t2, e) ==
    [branch |-> b, docs |-> callerDocs, selected |-> <<>>, target_used |-> t2,
     err |-> e, parameters_list |-> <<>>]
Finish(b, callerDocs, t2, sel) ==
    LET r == ParametersLoop(sel)
    IN  [branch |-> b, docs |-> callerDocs, selected |-> sel, target_used |-> t2,
         err |-> r.err, parameters_list |-> r.list]

(* len(docs) <= max_predictions / 2 *)
ShortCircuit_Never(d, maxp) == FALSE
ShortCircuit(d, maxp) == Len(d) <= maxp \div 2

(* The 'targeted' branch past its check of `values`. *)
TargetedWithValues(d, maxp, t, v) ==
    LET t2 == Target2(t, v.list)
        sort_inds == SortInds(v.list, t2)
    IN  IF Len(v.list) > Len(d)
        THEN {Raise("targeted", d, t2, "IndexError")}
        ELSE LET sorted == [k \in 1..Len(sort_inds) |-> d[sort_inds[k]]]
                 tr == Trim(sorted, maxp)
             IN  IF tr.err # "none"
                 THEN {Raise("targeted", d, t2, tr.err)}
                 ELSE {Finish("targeted", d, t2, tr.list)}

(* A check `values is None` in place of `not values`: an empty list passes, *)
(* max([]) raises ValueError when the default target is wanted, and        *)
(* otherwise nothing is sorted and nothing is selected.                    *)
Targeted_ChecksNoneOnly(d, maxp, t, v) ==
    IF ~v.given THEN {Raise("targeted", d, -1, "MissingValues")}
    ELSE IF Len(v.list) = 0
    THEN IF NotTarget(t) THEN {Raise("targeted", d, -1, "ValueError")}
         ELSE {Finish("targeted", d, 2 * t.val, <<>>)}
    ELSE TargetedWithValues(d, maxp, t, v)
Targeted(d, maxp, t, v) ==
    IF NotValues(v) THEN {Raise("targeted", d, -1, "MissingValues")}
    ELSE TargetedWithValues(d, maxp, t, v)

(* random.shuffle(docs) permutes the caller's list in place. *)
Random(d, maxp) ==
    {LET shuffled == [k \in 1..Len(d) |-> d[perm[k]]]
         tr == Trim(shuffled, maxp)
     IN  IF tr.err # "none"
         THEN Raise("random", shuffled, -1, tr.err)
         ELSE Finish("random", shuffled, -1, tr.list)
     : perm \in Permutations(1..Len(d))}

(* The sample handed back as the final list, one entry per sampled doc. *)
Gaussian_Undoubled(d, maxp, t, v) ==
    IF NotValues(v) THEN {Raise("gaussian", d, -1, "MissingValues")}
    ELSE LET t2 == Target2(t, v.list)
             range == SeqMax(v.list) - SeqMin(v.list)
             pdf_eval == [i \in DOMAIN v.list |->
                            NormPdf(N_SIGMAS * Abs(2 * v.list[i] - t2), 2 * range)]
             p == Normalize(pdf_eval)
         IN  {IF c.err # "none"
              THEN Raise("gaussian", d, t2, c.err)
              ELSE [branch |-> "gaussian", docs |-> d, selected |-> c.sample,
                    target_used |-> t2, err |-> "none",
                    parameters_list |->
                        [k \in DOMAIN c.sample |-> [doc |-> c.sample[k].id, top |-> TRUE]]]
              : c \in NpRandomChoice(d, maxp \div 2, p)}
Gaussian(d, maxp, t, v) ==
    IF NotValues(v) THEN {Raise("gaussian", d, -1, "MissingValues")}
    ELSE LET t2 == Target2(t, v.list)
             range == SeqMax(v.list) - SeqMin(v.list)
             pdf_eval == [i \in DOMAIN v.list |->
                            NormPdf(N_SIGMAS * Abs(2 * v.list[i] - t2), 2 * range)]
             p == Normalize(pdf_eval)
         IN  {IF c.err # "none"
              THEN Raise("gaussian", d, t2, c.err)
              ELSE Finish("gaussian", d, t2, c.sample)
              : c \in NpRandomChoice(d, maxp \div 2, p)}

(* An unrecognized prioritization treated as "take the docs as they are". *)
MakeParametersListOutcomes_PassThrough(d, prio, maxp, t, v) ==
    IF ShortCircuit(d, maxp) THEN {Finish("shortcircuit", d, -1, d)}
    ELSE IF prio = "targeted" THEN Targeted(d, maxp, t, v)
    ELSE IF prio = "random" THEN Random(d, maxp)
    ELSE IF prio = "gaussian" THEN Gaussian(d, maxp, t, v)
    ELSE {Finish("invalid", d, -1, d)}
MakeParametersListOutcomes(d, prio, maxp, t, v) ==
    IF ShortCircuit(d, maxp) THEN {Finish("shortcircuit", d, -1, d)}
    ELSE IF prio = "targeted" THEN Targeted(d, maxp, t, v)
    ELSE IF prio = "random" THEN Random(d, maxp)
    ELSE IF prio = "gaussian" THEN Gaussian(d, maxp, t, v)
    ELSE {Raise("invalid", d, -1, "InvalidPrioritization")}

MakeParametersList ==
    /\ pc = "mpl_call"
    /\ \E o \in MakeParametersListOutcomes(docs, prioritization, max_predictions,
                                           target, values) :
        /\ branch' = o.branch
        /\ docs' = o.docs
        /\ selected' = o.selected
        /\ target_used' = o.target_used
        /\ err' = o.err
        /\ parameters_list' = o.parameters_list
        /\ pc' = IF o.err = "none" THEN "mpl_returned" ELSE "mpl_raised"
    /\ UNCHANGED <<prioritization, max_predictions, target, values,
                   docs_by_surface, energy_target, stdev, max_rockets, yielded>>

-----------------------------------------------------------------------------
(* BestLowCoverageSitesWithGaussianNoise.requires (core.py), a generator:  *)
(* its body up to np.random.choice, then one loop iteration per task.      *)

RequiresChoiceOutcomes(dbs, et, sd, mr) ==
    LET d == SelectSeq(dbs, LAMBDA doc : ~doc.DFT_calculated)
        probability_densities ==
            [i \in DOMAIN d |-> NormPdf(10 * Abs(d[i].energy - et), sd)]
    IN  IF Len(d) = 0
        THEN {[err |-> "TypeError", sample |-> <<>>]}
        ELSE NpRandomChoice(d, mr, Normalize(probability_densities))

RequiresChoose ==
    /\ pc = "req_created"
    /\ \E c \in RequiresChoiceOutcomes(docs_by_surface, energy_target, stdev,
                                       max_rockets) :
        /\ selected' = c.sample
        /\ err' = c.err
        /\ pc' = IF c.err = "none" THEN "req_loop" ELSE "req_raised"
    /\ branch' = "requires"
    /\ UNCHANGED <<docs, prioritization, max_predictions, target, values,
                   docs_by_surface, energy_target, stdev, max_rockets,
                   target_used, parameters_list, yielded>>

(* One iteration: _make_adslab_parameters_from_doc, then the yield. *)
RequiresYield ==
    /\ pc = "req_loop"
    /\ Len(yielded) < Len(selected)
    /\ LET doc == selected[Len(yielded) + 1]
       IN  IF doc.complete
           THEN /\ yielded' = Append(yielded, doc.id)
                /\ UNCHANGED <<pc, err>>
           ELSE /\ err' = "KeyError"
                /\ pc' = "req_raised"
                /\ UNCHANGED yielded
    /\ UNCHANGED <<docs, prioritization, max_predictions, target, values,
                   docs_by_surface, energy_target, stdev, max_rockets,
                   branch, selected, target_used, parameters_list>>

RequiresStop ==
    /\ pc = "req_loop"
    /\ Len(yielded) = Len(selected)
    /\ pc' = "req_done"
    /\ UNCHANGED <<docs, prioritization, max_predictions, target, values,
                   docs_by_surface, energy_target, stdev, max_rockets,
                   branch, selected, target_used, parameters_list, yielded, err>>

-----------------------------------------------------------------------------
Targets == {None} \cup {[given |-> TRUE, val |-> x] : x \in (0..MaxVal) \cup {FarTarget}}
ValueLists ==
    {NoValues} \cup {[given |-> TRUE, list |-> l] : l \in SeqsUpTo(0..MaxVal, MaxDocs)}

InitOutputs ==
    /\ branch = "none"
    /\ selected = <<>>
    /\ target_used = -1
    /\ parameters_list = <<>>
    /\ yielded = <<>>
    /\ err = "none"

InitMakeParametersList ==
    /\ pc = "mpl_call"
    /\ docs \in UNION {CatalogDocs(n) : n \in 0..MaxDocs}
    /\ prioritization \in Policies
    /\ max_predictions \in 0..MaxPred
    /\ target \in Targets
    /\ values \in ValueLists
    /\ docs_by_surface = <<>>
    /\ energy_target = 0
    /\ stdev = 1
    /\ max_rockets = 1
    /\ InitOutputs

InitRequires ==
    /\ pc = "req_created"
    /\ docs = <<>>
    /\ prioritization = "gaussian"
    /\ max_predictions = 0
    /\ target = None
    /\ values = NoValues
    /\ docs_by_surface \in UNION {SurfaceDocs(n) : n \in 0..MaxSurfaces}
    /\ energy_target \in (0..MaxVal) \cup {FarEnergyTarget}
    /\ stdev \in {0, 1}
    /\ max_rockets \in 1..MaxRockets
    /\ InitOutputs

Init == InitMakeParametersList \/ InitRequires

Next == MakeParametersList \/ RequiresChoose \/ RequiresYield \/ RequiresStop

Spec == Init /\ [][Next]_vars

-----------------------------------------------------------------------------
(* Vocabulary of the properties *)
MplEnded == pc \in {"mpl_returned", "mpl_raised"}
RequiresStarted == pc \in {"req_loop", "req_done", "req_raised"}
Recognized == {"targeted", "random", "gaussian"}
AllComplete(s) == \A i \in DOMAIN s : s[i].complete
Distinct(s) == \A i, j \in DOMAIN s : i # j => s[i] # s[j]
Members(s) == {s[i] : i \in DOMAIN s}
AllEqual(l) == \A i, j \in DOMAIN l : l[i] = l[j]
(* Init numbers the caller's docs by position, so a list is in its        *)
(* original order exactly when position i holds doc i.                     *)
OriginalOrder(s) == \A i \in DOMAIN s : s[i].id = i
(* The short-circuit condition as the real-number comparison               *)
(* len(candidates) <= max_selected/2.                                      *)
FewCandidates == 2 * Len(docs) <= max_predictions
(* The order by non-decreasing distance from the doubled target t2, ties   *)
(* in original order: the one arrangement of the indices with no           *)
(* inversion.                                                              *)
ClosestFirst(vals, t2) ==
    LET n == Len(vals)
        dist == [i \in 1..n |-> Abs(2 * vals[i] - t2)]
    IN  CHOOSE s \in Arrangements(1..n, n) :
            \A i, j \in 1..n :
                i < j => \/ dist[s[i]] < dist[s[j]]
                         \/ dist[s[i]] = dist[s[j]] /\ s[i] < s[j]
Prefix(s, k) == SubSeq(s, 1, Min2(Len(s), k))
NotCalculated == {i \in DOMAIN docs_by_surface : ~docs_by_surface[i].DFT_calculated}

-----------------------------------------------------------------------------
(* C1: for every candidate list, every recognized policy and every         *)
(* max_predictions > 0, _make_parameters_list returns at most              *)
(* max_predictions parameter dictionaries, short-circuit or not.           *)
C1_AtMostMaxPredictions ==
    (MplEnded /\ max_predictions > 0 /\ prioritization \in Recognized)
        => Len(parameters_list) <= max_predictions

C1_Witness ==
    /\ pc = "mpl_returned"
    /\ branch = "targeted"
    /\ Len(docs) = 3
    /\ max_predictions = 3
    /\ Len(parameters_list) = 2

(* C2: whenever len(candidates) <= max_selected/2 the selection takes      *)
(* every candidate in its original order, applies no policy and raises no  *)
(* selection error, whatever the policy and the values; the only exception *)
(* that can leave the call is the KeyError of a doc that lacks a required  *)
(* key when the task specs are built.                                      *)
C2_ShortCircuitTakesAll ==
    (MplEnded /\ FewCandidates)
        => /\ branch = "shortcircuit"
           /\ selected = docs
           /\ OriginalOrder(selected)
           /\ target_used = -1
           /\ err = (IF AllComplete(docs) THEN "none" ELSE "KeyError")
           /\ err = "none" => Len(parameters_list) = 2 * Len(docs)

C2_Witness ==
    /\ pc = "mpl_returned"
    /\ prioritization = "targeted"
    /\ ~values.given
    /\ Len(docs) = 2
    /\ max_predictions = 4
    /\ Len(selected) = 2

(* C3: max_selected = 0 means no limit: for a non-empty candidate list and *)
(* any recognized policy (with well-formed values where the policy reads   *)
(* them) the selection completes without error and selects every           *)
(* candidate.                                                              *)
C3_ZeroMeansNoLimit ==
    (/\ MplEnded
     /\ max_predictions = 0
     /\ Len(docs) >= 1
     /\ AllComplete(docs)
     /\ prioritization \in Recognized
     /\ prioritization # "random" =>
            /\ values.given
            /\ Len(values.list) = Len(docs)
            /\ ~AllEqual(values.list))
        => /\ err = "none"
           /\ Len(selected) = Len(docs)

(* C4: Targeted, short-circuit not taken, one value per (well-formed)      *)
(* candidate: the selected candidates are the first floor(max_selected/2)  *)
(* of the candidates ordered by non-decreasing |value - target|, ties in   *)
(* original order (target: the given one, or the default when none is      *)
(* given).                                                                 *)
C4_TargetedTakesClosest ==
    (/\ MplEnded
     /\ prioritization = "targeted"
     /\ ~FewCandidates
     /\ AllComplete(docs)
     /\ values.given
     /\ Len(values.list) = Len(docs))
        => LET t2 == IF target.given THEN 2 * target.val
                     ELSE SeqMax(values.list) - SeqMin(values.list)
               order == ClosestFirst(values.list, t2)
           IN  Ids(selected) = Prefix(order, max_predictions \div 2)

(* C5: the default target replaces only an unspecified target: for every   *)
(* explicitly given target, 0 included, Targeted and GaussianWeighted      *)
(* (run on one value per candidate, selecting at least one) measure from   *)
(* exactly the given target.                                               *)
C5_GivenTargetIsUsed ==
    (/\ pc = "mpl_returned"
     /\ branch \in {"targeted", "gaussian"}
     /\ values.given
     /\ Len(values.list) = Len(docs)
     /\ Len(selected) >= 1
     /\ target.given)
        => target_used = 2 * target.val

(* C6 as claimed: a policy name that is not recognized fails with the      *)
(* invalid-policy error and returns nothing, for every (non-empty,         *)
(* well-formed) candidate list and every max_selected.                     *)
C6_InvalidPolicyAlwaysFails ==
    (/\ MplEnded
     /\ prioritization \notin Recognized
     /\ Len(docs) >= 1
     /\ AllComplete(docs))
        => /\ err = "InvalidPrioritization"
           /\ parameters_list = <<>>

(* C6 as amended: a policy name that is not recognized fails with the      *)
(* invalid-policy error and returns nothing whenever the short-circuit     *)
(* does not apply (len(candidates) > max_selected/2).                      *)
C6_InvalidPolicyFailsPastShortCircuit ==
    (MplEnded /\ prioritization \notin Recognized /\ ~FewCandidates)
        => /\ pc = "mpl_raised"
           /\ err = "InvalidPrioritization"
           /\ selected = <<>>
           /\ parameters_list = <<>>

C6_Witness ==
    /\ pc = "mpl_raised"
    /\ prioritization = "anything"
    /\ err = "InvalidPrioritization"
    /\ Len(docs) = 3
    /\ max_predictions = 4

(* C7: past the short-circuit, Targeted and GaussianWeighted called with   *)
(* values None or empty fail with the missing-values error before any      *)
(* candidate is ordered, sampled or turned into a task spec.               *)
C7_MissingValuesFail ==
    (/\ MplEnded
     /\ ~FewCandidates
     /\ prioritization \in {"targeted", "gaussian"}
     /\ (~values.given \/ values.list = <<>>))
        => /\ pc = "mpl_raised"
           /\ err = "MissingValues"
           /\ target_used = -1
           /\ selected = <<>>
           /\ parameters_list = <<>>
           /\ OriginalOrder(docs)

C7_Witness ==
    /\ pc = "mpl_raised"
    /\ prioritization = "targeted"
    /\ values.given
    /\ values.list = <<>>
    /\ target.given
    /\ target.val = 1
    /\ err = "MissingValues"

(* C8: Gaussian sampling is without replacement: whenever the draw         *)
(* succeeds, the drawn candidates are pairwise distinct members of the     *)
(* population and their number is the requested one: floor(max_selected/2) *)
(* in _make_parameters_list, max_rockets in `requires`.                    *)
C8_GaussianSampleIsExact ==
    /\ (MplEnded /\ branch = "gaussian" /\ err \in {"none", "KeyError"})
        => /\ Distinct(selected)
           /\ Members(selected) \subseteq Members(docs)
           /\ 2 * Len(selected) <= max_predictions
           /\ max_predictions < 2 * Len(selected) + 2
    /\ (pc \in {"req_loop", "req_done"} \/ (pc = "req_raised" /\ err = "KeyError"))
        => /\ Distinct(selected)
           /\ Members(selected) \subseteq {docs_by_surface[i] : i \in NotCalculated}
           /\ Len(selected) = max_rockets

C8_Witness ==
    /\ pc = "mpl_returned"
    /\ branch = "gaussian"
    /\ Len(docs) = 3
    /\ Len(selected) = 2
    /\ selected[1].id = 3

C10_DegenerateAlwaysFails ==
    (/\ MplEnded
     /\ prioritization = "gaussian"
     /\ AllComplete(docs)
     /\ values.given
     /\ Len(values.list) >= 1
     /\ Len(values.list) = Len(docs)
     /\ AllEqual(values.list)
     /\ max_predictions >= 2)
        => /\ pc = "mpl_raised"
           /\ err = "ValueError"

(* C10 as amended: GaussianWeighted with all-equal values fails (numpy     *)
(* rejects the nan probabilities with a ValueError) and selects nothing    *)
(* whenever the short-circuit does not apply and at least one candidate is *)
(* requested, i.e. len(candidates) > max_selected/2 and max_selected >= 2. *)
C10_DegenerateFailsPastShortCircuit ==
    (/\ MplEnded
     /\ prioritization = "gaussian"
     /\ values.given
     /\ Len(values.list) >= 1
     /\ AllEqual(values.list)
     /\ ~FewCandidates
     /\ max_predictions >= 2)
        => /\ pc = "mpl_raised"
           /\ err = "ValueError"
           /\ selected = <<>>
           /\ parameters_list = <<>>

C10_Witness ==
    /\ pc = "mpl_raised"
    /\ branch = "gaussian"
    /\ err = "ValueError"
    /\ values.given
    /\ values.list = <<1, 1, 1>>
    /\ Len(docs) = 3
    /\ max_predictions = 4

(* C11: every selected candidate, in selection order, gives exactly one    *)
(* top spec immediately followed by exactly one bottom spec: every         *)
(* (selected candidate, side) pair appears exactly once and the returned   *)
(* list is exactly twice as long as the selection.                         *)
C11_TopThenBottomPerCandidate ==
    pc = "mpl_returned"
        => /\ Len(parameters_list) = 2 * Len(selected)
           /\ \A k \in DOMAIN selected :
                /\ parameters_list[2 * k - 1] = [doc |-> selected[k].id, top |-> TRUE]
                /\ parameters_list[2 * k] = [doc |-> selected[k].id, top |-> FALSE]
           /\ \A k \in DOMAIN selected, side \in BOOLEAN :
                Cardinality({n \in DOMAIN parameters_list :
                    parameters_list[n] = [doc |-> selected[k].id, top |-> side]}) = 1

C11_Witness ==
    /\ pc = "mpl_returned"
    /\ branch = "targeted"
    /\ parameters_list = <<[doc |-> 3, top |-> TRUE], [doc |-> 3, top |-> FALSE],
                           [doc |-> 2, top |-> TRUE], [doc |-> 2, top |-> FALSE]>>

(* C12 as claimed: on the gaussian path the sampled candidates are the     *)
(* final result without the top/bottom doubling: the returned list has     *)
(* exactly floor(max_selected/2) entries.                                  *)
C12_GaussianIsNotDoubled ==
    (pc = "mpl_returned" /\ branch = "gaussian")
        => /\ 2 * Len(parameters_list) <= max_predictions
           /\ max_predictions < 2 * Len(parameters_list) + 2

(* C12 as amended: the gaussian path is doubled like the targeted and      *)
(* random paths: the returned list holds two entries per sampled           *)
(* candidate, 2*floor(max_selected/2) in all.                              *)
C12_GaussianIsDoubledToo ==
    /\ (pc = "mpl_returned" /\ branch = "gaussian")
        => /\ Len(parameters_list) = 2 * Len(selected)
           /\ Len(parameters_list) <= max_predictions
           /\ max_predictions <= Len(parameters_list) + 1
    /\ (pc = "mpl_returned" /\ branch \in {"targeted", "random"})
        => Len(parameters_list) = 2 * Len(selected)

C12_Witness ==
    /\ pc = "mpl_returned"
    /\ branch = "gaussian"
    /\ max_predictions = 4
    /\ Len(docs) = 3
    /\ Len(parameters_list) = 4

(* C13: a value list whose length differs from the candidate count is     *)
(* rejected with an error before any selection happens; in particular      *)
(* Targeted (past the short-circuit, asked for at least one well-formed    *)
(* candidate) never selects from the candidates that do have a value while *)
(* silently dropping the others.                                           *)
C13_ShapeMismatchRejected ==
    (/\ MplEnded
     /\ prioritization = "targeted"
     /\ ~FewCandidates
     /\ max_predictions >= 2
     /\ AllComplete(docs)
     /\ values.given
     /\ Len(values.list) >= 1
     /\ Len(values.list) # Len(docs))
        => /\ pc = "mpl_raised"
           /\ selected = <<>>
           /\ parameters_list = <<>>

(* C14: all-or-nothing batches: when building the task spec of a selected  *)
(* candidate fails, nothing of that round has been handed on: neither a    *)
(* list returned by _make_parameters_list nor a task yielded by            *)
(* `requires`.                                                             *)
C14_AllOrNothing ==
    /\ (pc = "mpl_raised" /\ err = "KeyError") => parameters_list = <<>>
    /\ (pc = "req_raised" /\ err = "KeyError") => yielded = <<>>

(* C15: a selection call (on well-formed candidates, with a positive       *)
(* max_selected) leaves the caller's candidate list as it was, same        *)
(* elements in the same order, under every policy.  (A call only ever      *)
(* permutes the list, so it is as it was exactly when it is in its         *)
(* original order.)                                                        *)
C15_CallerListUnchanged ==
    (MplEnded /\ max_predictions >= 1 /\ AllComplete(docs))
        => OriginalOrder(docs)

====
